---- MODULE Spec2Model ----
(***************************************************************************)
(* A model of the word picker service (src/main.go): the usage store       *)
(* (storeUsedWords / getUsedWords over the used_words table), the text     *)
(* extractor (ExtractWordsFromParagraphs, getText, RemovePunctuation),     *)
(* the word selector (PickRandomUniqueWords) and the request handler       *)
(* (pickHandler).                                                          *)
(*                                                                         *)
(* Strings whose characters matter (document text, the count parameter)    *)
(* are sequences of one-character strings.  Words handed to the selector   *)
(* and the store are atoms.                                                *)
(***************************************************************************)
EXTENDS Integers, Sequences, FiniteSets, TLC

VARIABLES
    sel,          \* one call of PickRandomUniqueWords
    ext,          \* one call of ExtractWordsFromParagraphs
    used_words,   \* table used_words: the committed records of each (word, language)
    writer,       \* the transaction holding the database write lock (0: none)
    st,           \* per caller: its storeUsedWords / getUsedWords call
    req,          \* per request: its pickHandler activation
    hist          \* history: the batches stored and the words served so far

vars == <<sel, ext, used_words, writer, st, req, hist>>

(***************************************************************************)
(* Bounds of the model.                                                    *)
(***************************************************************************)
\* longest word pool handed to the selector
MaxPool == 3
\* most nodes of a parsed document below its root
MaxNodes == 3
\* longest batch passed to storeUsedWords by a direct caller
MaxBatch == 2
\* longest word pool of a fetched document
MaxDoc == 2

\* the words of the model
Words == {"a", "b", "c"}

\* All sequences over S of length at most k.
SeqsUpTo(S, k) == UNION {[1..m -> S] : m \in 0..k}

\* The elements of a sequence.
Range(s) == {s[k] : k \in 1..Len(s)}

(***************************************************************************)
(* Word selector                                                           *)
(***************************************************************************)

\* contains: a linear search of the slice.
contains(words, word) == \E k \in 1..Len(words) : words[k] = word

\* The early return as the function's comment words it: "if n > len(words)".
PickGuardStrict(words, n) == n > Len(words)

\* The early return of PickRandomUniqueWords: "if n >= len(words)".
PickGuard(words, n) == n >= Len(words)

\* A rejection test without the search of the words already picked.
RejectsUsedOnly(usedBefore, randomWords, word) == word \in usedBefore

\* A rejection test without the lookup in usedBefore.
RejectsPickedOnly(usedBefore, randomWords, word) == contains(randomWords, word)

\* The loop's rejection test: the word was used before, or was already picked.
Rejects(usedBefore, randomWords, word) ==
    word \in usedBefore \/ contains(randomWords, word)

\* One iteration of the selection loop with rand.Intn(len(words)) = i - 1:
\* the picked words after it and whether the loop breaks.
LoopBody(words, n, usedBefore, randomWords, i) ==
    LET word == words[i] IN
    IF Rejects(usedBefore, randomWords, word)
    THEN [randomWords |-> randomWords, done |-> FALSE]
    ELSE LET next == Append(randomWords, word) IN
         [randomWords |-> next, done |-> Len(next) = n]

\* How a call starts: the early return, the panic of make([]string, 0, n) on a
\* negative capacity, or the entry into the loop with no word picked.
PickEntry(words, n) ==
    IF PickGuard(words, n) THEN "returned"
    ELSE IF n < 0 THEN "panicked"
    ELSE "loop"

NoSel == [pc |-> "none"]

SelInputs ==
    [words : SeqsUpTo(Words, MaxPool),
     n : (0 - 1)..(MaxPool + 1),
     usedBefore : SUBSET Words]

SelInit ==
    \E a \in SelInputs :
        sel = [pc |-> "call", words |-> a.words, n |-> a.n,
               usedBefore |-> a.usedBefore, randomWords |-> <<>>, result |-> <<>>]

\* PickRandomUniqueWords up to the loop.
SelCall ==
    /\ sel.pc = "call"
    /\ sel' = [sel EXCEPT !.pc = PickEntry(sel.words, sel.n),
                          !.result = IF PickGuard(sel.words, sel.n)
                                     THEN sel.words ELSE <<>>]
    /\ UNCHANGED <<ext, used_words, writer, st, req, hist>>

\* One iteration of the loop drawing index i; the return after the break.
SelDraw(i) ==
    /\ sel.pc = "loop"
    /\ i \in 1..Len(sel.words)
    /\ LET b == LoopBody(sel.words, sel.n, sel.usedBefore, sel.randomWords, i) IN
       sel' = [sel EXCEPT !.randomWords = b.randomWords,
                          !.pc = IF b.done THEN "returned" ELSE "loop",
                          !.result = IF b.done THEN b.randomWords ELSE <<>>]
    /\ UNCHANGED <<ext, used_words, writer, st, req, hist>>

SelNext == SelCall \/ \E i \in 1..MaxPool : SelDraw(i)

(***************************************************************************)
(* Usage store                                                             *)
(***************************************************************************)

\* the language partitions of the table
Langs == {"en", "fr"}

\* the words the store and the handler work on
StoreWords == {"a", "b"}

\* A row of used_words(word, language).
Rows == StoreWords \X Langs

\* A multiset of rows: how many records each (word, language) pair has.
NoRows == [row \in Rows |-> 0]

\* INSERT without OR IGNORE: a record with the key makes the statement fail.
InsertPlain(table, pending, row) ==
    IF table[row] + pending[row] > 0
    THEN [pending |-> pending, conflict |-> TRUE]
    ELSE [pending |-> [pending EXCEPT ![row] = 1], conflict |-> FALSE]

\* INSERT OR IGNORE under PRIMARY KEY(word, language): the row is added unless
\* the transaction already sees a record with that key, and the statement
\* does not fail on the key.
InsertOrIgnore(table, pending, row) ==
    IF table[row] + pending[row] > 0
    THEN [pending |-> pending, conflict |-> FALSE]
    ELSE [pending |-> [pending EXCEPT ![row] = 1], conflict |-> FALSE]

\* The query without its WHERE clause.
SelectAnyLanguage(table, language) ==
    {row[1] : row \in {x \in Rows : table[x] > 0}}

\* SELECT word FROM used_words WHERE language=?, scanned into the map.
SelectWords(table, language) ==
    {row[1] : row \in {x \in Rows : table[x] > 0 /\ x[2] = language}}

IdleCall == [phase |-> "idle", words |-> <<>>, language |-> "en", idx |-> 1,
             pending |-> NoRows, txOpen |-> FALSE, err |-> FALSE,
             conflict |-> FALSE, applied |-> NoRows, got |-> {}]

\* The entry of storeUsedWords(words, language).
NewStore(words, language) ==
    [IdleCall EXCEPT !.phase = "begin", !.words = words, !.language = language]

\* A caller's state when storeUsedWords returns.
StoreReturn(call, err, open) ==
    [call EXCEPT !.phase = "ret", !.err = err, !.txOpen = open,
                 !.pending = NoRows]

ReturnRolledBack(call) == StoreReturn(call, TRUE, FALSE)

\* "return err" after a failed tx.Prepare: the transaction is neither
\* committed nor rolled back.
PrepareFailed(call) == StoreReturn(call, TRUE, call.txOpen)

\* db.Begin()
StBegin(c) ==
    /\ st[c].phase = "begin"
    /\ \/ st' = [st EXCEPT ![c] = StoreReturn(@, TRUE, FALSE)]
       \/ st' = [st EXCEPT ![c].phase = "prepare", ![c].txOpen = TRUE]
    /\ UNCHANGED <<sel, ext, used_words, writer, req, hist>>

\* tx.Prepare(...) and the deferred stmt.Close()
StPrepare(c) ==
    /\ st[c].phase = "prepare"
    /\ \/ st' = [st EXCEPT ![c] = PrepareFailed(@)]
       \/ st' = [st EXCEPT ![c].phase =
                     IF Len(st[c].words) = 0 THEN "commit" ELSE "exec"]
    /\ UNCHANGED <<sel, ext, used_words, writer, req, hist>>

\* stmt.Exec(word, language) of the loop, run by the database: it needs the
\* write lock.  A statement that fails on its key takes the error path:
\* tx.Rollback() and return err.
StExec(c) ==
    /\ st[c].phase = "exec"
    /\ writer \in {0, c}
    /\ LET ins == InsertOrIgnore(used_words, st[c].pending,
                                 <<st[c].words[st[c].idx], st[c].language>>)
       IN IF ins.conflict
          THEN /\ st' = [st EXCEPT ![c] = [ReturnRolledBack(@)
                                             EXCEPT !.conflict = TRUE]]
               /\ writer' = 0
          ELSE /\ st' = [st EXCEPT
                          ![c].pending = ins.pending,
                          ![c].idx = @ + 1,
                          ![c].phase = IF st[c].idx = Len(st[c].words)
                                       THEN "commit" ELSE "exec"]
               /\ writer' = c
    /\ UNCHANGED <<sel, ext, used_words, req, hist>>

\* stmt.Exec fails in the database or the driver: tx.Rollback() and return err.
StExecFail(c) ==
    /\ st[c].phase = "exec"
    /\ st' = [st EXCEPT ![c] = ReturnRolledBack(@)]
    /\ writer' = IF writer = c THEN 0 ELSE writer
    /\ UNCHANGED <<sel, ext, used_words, req, hist>>

\* The table after the transaction's rows are committed.
Commit(table, pending) == [row \in Rows |-> table[row] + pending[row]]

\* return tx.Commit(), when the commit succeeds.
StCommit(c) ==
    /\ st[c].phase = "commit"
    /\ writer \in {0, c}
    /\ used_words' = Commit(used_words, st[c].pending)
    /\ writer' = 0
    /\ st' = [st EXCEPT ![c] = [StoreReturn(@, FALSE, FALSE)
                                   EXCEPT !.applied = st[c].pending]]
    /\ hist' = [hist EXCEPT !.stored[st[c].language] =
                                @ \cup Range(st[c].words)]
    /\ UNCHANGED <<sel, ext, req>>

\* return tx.Commit(), when the commit fails: the transaction is finished and
\* nothing of it is kept.
StCommitFail(c) ==
    /\ st[c].phase = "commit"
    /\ st' = [st EXCEPT ![c] = ReturnRolledBack(@)]
    /\ writer' = IF writer = c THEN 0 ELSE writer
    /\ UNCHANGED <<sel, ext, used_words, req, hist>>

StoreSteps(c) ==
    \/ StBegin(c) \/ StPrepare(c) \/ StExec(c) \/ StExecFail(c)
    \/ StCommit(c) \/ StCommitFail(c)

\* the direct callers of the store
Callers == {1}

NoHist == [stored |-> [l \in Langs |-> {}], served |-> [l \in Langs |-> {}]]

\* A caller that is not inside a call.
Free(c) == st[c].phase \in {"idle", "ret", "got", "goterr"}

\* A caller calls storeUsedWords(words, language).
CallStore(c, words, language) ==
    /\ Free(c)
    /\ st' = [st EXCEPT ![c] = NewStore(words, language)]
    /\ UNCHANGED <<sel, ext, used_words, writer, req, hist>>

\* A caller calls getUsedWords(language): the query fails, or every row of
\* the language is scanned into the result.
CallGet(c, language) ==
    /\ Free(c)
    /\ \/ st' = [st EXCEPT ![c] = [IdleCall EXCEPT !.phase = "goterr",
                                      !.language = language, !.err = TRUE]]
       \/ st' = [st EXCEPT ![c] = [IdleCall EXCEPT !.phase = "got",
                                      !.language = language,
                                      !.got = SelectWords(used_words, language)]]
    /\ UNCHANGED <<sel, ext, used_words, writer, req, hist>>

NoReq == <<>>
NoExt == [pc |-> "none"]

StoreInit ==
    /\ sel = NoSel
    /\ ext = NoExt
    /\ used_words = NoRows
    /\ writer = 0
    /\ st = [c \in Callers |-> IdleCall]
    /\ req = NoReq
    /\ hist = NoHist

StoreNext ==
    \E c \in Callers :
        \/ \E words \in SeqsUpTo(StoreWords, MaxBatch), language \in Langs :
              CallStore(c, words, language)
        \/ \E language \in Langs : CallGet(c, language)
        \/ StoreSteps(c)

\* The store under direct calls of storeUsedWords and getUsedWords.
SpecStore == StoreInit /\ [][StoreNext]_vars

(***************************************************************************)
(* Text extractor                                                          *)
(***************************************************************************)

\* The characters of the model: letters with and without an upper case form,
\* white space, the apostrophe, a digit and a punctuation mark.
LowerLetters == {"h", "i", "t", "s", "b"}
UpperLetters == {"H", "B"}
Spaces == {" "}

\* unicode.IsLetter
IsLetter(r) == r \in LowerLetters \cup UpperLetters

\* unicode.IsSpace
IsSpace(r) == r \in Spaces

\* unicode.ToLower
ToLower(r) == IF r = "H" THEN "h" ELSE IF r = "B" THEN "b" ELSE r

\* The runes RemovePunctuation writes to the builder.
Keeps(r) == IsLetter(r) \/ IsSpace(r) \/ r = "'"

\* RemovePunctuation: the kept runes, each lowered.
RemovePunctuation(s) ==
    LET kept == SelectSeq(s, Keeps) IN
    [k \in 1..Len(kept) |-> ToLower(kept[k])]

\* strings.Fields: s is split around each run of white space; cur is the
\* field being read and out the fields read so far.
RECURSIVE FieldsFrom(_, _, _, _)
FieldsFrom(s, k, cur, out) ==
    LET closed == IF cur = <<>> THEN out ELSE Append(out, cur) IN
    IF k > Len(s) THEN closed
    ELSE IF IsSpace(s[k]) THEN FieldsFrom(s, k + 1, <<>>, closed)
    ELSE FieldsFrom(s, k + 1, Append(cur, s[k]), out)

Fields(s) == FieldsFrom(s, 1, <<>>, <<>>)

\* The concatenation of a sequence of sequences.
RECURSIVE Flatten(_)
Flatten(ss) == IF ss = <<>> THEN <<>> ELSE Head(ss) \o Flatten(Tail(ss))

\* A parsed document is the sequence of its nodes in document order, each
\* with its depth; node 1 is the document root.  The children of node n
\* (FirstChild, then NextSibling) are the nodes one level below it that
\* follow it before the tree returns to its level.
InSubtree(doc, n, j) == j > n /\ \A k \in (n + 1)..j : doc[k].depth > doc[n].depth

Children(doc, n) ==
    SelectSeq([j \in 1..Len(doc) |-> j],
              LAMBDA j : InSubtree(doc, n, j) /\ doc[j].depth = doc[n].depth + 1)

\* getText: the node's own text, then the text of its children.
RECURSIVE getText(_, _)
getText(doc, n) ==
    LET own == IF doc[n].type = "text" THEN doc[n].data ELSE <<>>
        ch == Children(doc, n)
    IN own \o Flatten([k \in 1..Len(ch) |-> getText(doc, ch[k])])

IsParagraph(node) == node.type = "element" /\ node.data = "p"

\* traverse: the words appended while visiting node n and, after it, its
\* children.
RECURSIVE traverse(_, _)
traverse(doc, n) ==
    LET own == IF IsParagraph(doc[n])
               THEN Fields(RemovePunctuation(getText(doc, n))) ELSE <<>>
        ch == Children(doc, n)
    IN own \o Flatten([k \in 1..Len(ch) |-> traverse(doc, ch[k])])

\* the text nodes' contents and the element names of the model
Texts == { <<"H", "i", ",", " ">>, <<"i", "t", "'", "s">>, <<" ", "2", " ", "B">> }
Tags == {"p", "table"}

Root == [type |-> "document", data |-> "", depth |-> 0]

\* The element and text nodes a document may hold below its root.
Nodes ==
    [type : {"element"}, data : Tags, depth : 1..MaxNodes]
    \cup [type : {"text"}, data : Texts, depth : 1..MaxNodes]

\* The nodes below the root form a tree: the first is a child of the root, a
\* node is at most one level below its predecessor, and only elements have
\* children.
WellFormed(below) ==
    /\ Len(below) > 0 => below[1].depth = 1
    /\ \A k \in 2..Len(below) :
          /\ below[k].depth <= below[k - 1].depth + 1
          /\ below[k - 1].type = "text" => below[k].depth <= below[k - 1].depth

Docs ==
    {<<Root>> \o below : below \in
        {b \in SeqsUpTo(Nodes, MaxNodes) : WellFormed(b)}}

ExtInit ==
    \E doc \in Docs : ext = [pc |-> "call", doc |-> doc, words |-> <<>>]

\* html.Parse fails: ExtractWordsFromParagraphs returns the error.
ExtractFail ==
    /\ ext.pc = "call"
    /\ ext' = [ext EXCEPT !.pc = "error"]
    /\ UNCHANGED <<sel, used_words, writer, st, req, hist>>

\* html.Parse yields the document: the traversal from its root.
ExtractOk ==
    /\ ext.pc = "call"
    /\ ext' = [ext EXCEPT !.pc = "returned", !.words = traverse(ext.doc, 1)]
    /\ UNCHANGED <<sel, used_words, writer, st, req, hist>>

ExtractInit ==
    /\ ExtInit
    /\ sel = NoSel
    /\ used_words = NoRows
    /\ writer = 0
    /\ st = <<>>
    /\ req = NoReq
    /\ hist = NoHist

ExtractNext == ExtractFail \/ ExtractOk

\* ExtractWordsFromParagraphs over the documents of the model.
SpecExtract == ExtractInit /\ [][ExtractNext]_vars

PickInit ==
    /\ SelInit
    /\ ext = NoExt
    /\ used_words = NoRows
    /\ writer = 0
    /\ st = <<>>
    /\ req = NoReq
    /\ hist = NoHist

\* PickRandomUniqueWords over the inputs of the model.
SpecPick == PickInit /\ [][SelNext]_vars

\* The call runs on, and every index of the pool keeps being drawn.
FairPick ==
    SpecPick /\ WF_vars(SelCall) /\ \A i \in 1..MaxPool : WF_vars(SelDraw(i))

(***************************************************************************)
(* Request handler                                                         *)
(***************************************************************************)

\* the default of the count parameter
DefaultCount == 10

Digits == {"0", "1", "2"}

DigitValue(d) == IF d = "0" THEN 0 ELSE IF d = "1" THEN 1 ELSE 2

\* The value of a string of digits.
RECURSIVE DecimalValue(_)
DecimalValue(s) ==
    IF s = <<>> THEN 0
    ELSE 10 * DecimalValue(SubSeq(s, 1, Len(s) - 1)) + DigitValue(s[Len(s)])

\* strconv.Atoi on the short strings of the model (none is out of range): an
\* optional sign and at least one digit, or an error.
Atoi(s) ==
    LET signed == Len(s) > 0 /\ s[1] \in {"+", "-"}
        digits == IF signed THEN Tail(s) ELSE s
    IN IF digits = <<>> \/ \E k \in 1..Len(digits) : digits[k] \notin Digits
       THEN [err |-> TRUE, val |-> 0]
       ELSE [err |-> FALSE,
             val |-> IF s[1] = "-" THEN 0 - DecimalValue(digits)
                     ELSE DecimalValue(digits)]

\* The language of a request: the parameter, "en" when it is empty.
ResolveLanguage(param) == IF param = "" THEN "en" ELSE param

\* The count of a request: "10" when the parameter is empty, and 10 when
\* strconv.Atoi returns an error.
CountValue(param) ==
    LET text == IF param = <<>> THEN <<"1", "0">> ELSE param
        parsed == Atoi(text)
    IN IF parsed.err THEN DefaultCount ELSE parsed.val

\* randomArticleURLByLanguage[language] is a URL (not the empty string).
HasURL(language) == language \in {"en", "fr", "de"}

\* the request parameters of the model
LangParams == {"", "fr", "xx"}
CountParams ==
    { <<>>, <<"x">>, <<"0">>, <<"1">>, <<"2">>, <<"-", "1">>, <<"1", "x">> }

\* the steps of the pipeline, in the order of the handler
StepIndex(step) ==
    CASE step = "none" -> 0
      [] step = "fetch" -> 1
      [] step = "read" -> 2
      [] step = "extract" -> 3
      [] step = "load" -> 4
      [] step = "pick" -> 5
      [] step = "store" -> 6
      [] step = "respond" -> 7

NewReq ==
    [pc |-> "new", langParam |-> "", countParam |-> <<>>, language |-> "en",
     countValue |-> 0, words |-> <<>>, usedBefore |-> {}, randomWords |-> <<>>,
     firstNWords |-> <<>>, status |-> 0,
     failed |-> "none", last |-> "none", usedAtStart |-> {}, servedAtStart |-> {}]

Served(language) == IF language \in Langs THEN hist.served[language] ELSE {}

\* The handler after its parameters are resolved, with the words the store
\* holds and the words served for its language at that moment.
Arrived(lp, cp, used, served) ==
    [NewReq EXCEPT !.pc = "get", !.langParam = lp, !.countParam = cp,
                   !.language = ResolveLanguage(lp),
                   !.countValue = CountValue(cp),
                   !.usedAtStart = used, !.servedAtStart = served]

\* A request arrives: the language and count parameters are resolved.
HStart(r, lp, cp) ==
    /\ req[r].pc \in {"new", "done", "panicked"}
    /\ req' = [req EXCEPT ![r] =
                 Arrived(lp, cp, SelectWords(used_words, ResolveLanguage(lp)),
                         Served(ResolveLanguage(lp)))]
    /\ st' = [st EXCEPT ![r] = IdleCall]
    /\ UNCHANGED <<sel, ext, used_words, writer, hist>>

\* The answer http.Error(w, err.Error(), 500) and the return after it.
Abort(request, step) ==
    [request EXCEPT !.pc = "done", !.status = 500, !.failed = step, !.last = step]

\* http.Get fails: always for a language without URL.
HGetFail(r) ==
    /\ req[r].pc = "get"
    /\ req' = [req EXCEPT ![r] = Abort(@, "fetch")]
    /\ UNCHANGED <<sel, ext, used_words, writer, st, hist>>

Fetched(request) == [request EXCEPT !.pc = "read", !.last = "fetch"]

\* http.Get returns a response.
HGet(r) ==
    /\ req[r].pc = "get"
    /\ HasURL(req[r].language)
    /\ req' = [req EXCEPT ![r] = Fetched(@)]
    /\ UNCHANGED <<sel, ext, used_words, writer, st, hist>>

\* io.ReadAll and builder.Write: the error of io.ReadAll is overwritten by
\* that of builder.Write, which is nil, so the handler goes on with what was
\* read.  pool is what the body read holds as paragraph words.
ReadBody(request, pool, failed) ==
    [request EXCEPT !.pc = "extract", !.last = "read", !.words = pool,
                    !.failed = IF failed THEN "read" ELSE @]

HRead(r, pool, failed) ==
    /\ req[r].pc = "read"
    /\ req' = [req EXCEPT ![r] = ReadBody(@, pool, failed)]
    /\ UNCHANGED <<sel, ext, used_words, writer, st, hist>>

\* ExtractWordsFromParagraphs returns an error.
HExtractFail(r) ==
    /\ req[r].pc = "extract"
    /\ req' = [req EXCEPT ![r] = Abort([@ EXCEPT !.words = <<>>], "extract")]
    /\ UNCHANGED <<sel, ext, used_words, writer, st, hist>>

Extracted(request) == [request EXCEPT !.pc = "load", !.last = "extract"]

\* ExtractWordsFromParagraphs returns the words of the body.
HExtract(r) ==
    /\ req[r].pc = "extract"
    /\ req' = [req EXCEPT ![r] = Extracted(@)]
    /\ UNCHANGED <<sel, ext, used_words, writer, st, hist>>

\* getUsedWords returns an error.
HLoadFail(r) ==
    /\ req[r].pc = "load"
    /\ req' = [req EXCEPT ![r] = Abort(@, "load")]
    /\ UNCHANGED <<sel, ext, used_words, writer, st, hist>>

\* getUsedWords returns the words of the language.
HLoad(r) ==
    /\ req[r].pc = "load"
    /\ req' = [req EXCEPT ![r].pc = "pick", ![r].last = "load",
                          ![r].usedBefore =
                              SelectWords(used_words, req[r].language)]
    /\ UNCHANGED <<sel, ext, used_words, writer, st, hist>>

\* The call storeUsedWords(firstNWords, language).
ToStore(request, picked) ==
    [request EXCEPT !.pc = "store", !.last = "store", !.firstNWords = picked]

\* PickRandomUniqueWords(words, countValue, usedBefore) up to its loop.  A
\* panic ends the handler without an answer.
HPick(r) ==
    /\ req[r].pc = "pick"
    /\ LET entry == PickEntry(req[r].words, req[r].countValue) IN
       \/ /\ entry = "returned"
          /\ req' = [req EXCEPT ![r] = ToStore(@, req[r].words)]
          /\ st' = [st EXCEPT ![r] = NewStore(req[r].words, req[r].language)]
       \/ /\ entry = "panicked"
          /\ req' = [req EXCEPT ![r].pc = "panicked", ![r].last = "pick"]
          /\ st' = st
       \/ /\ entry = "loop"
          /\ req' = [req EXCEPT ![r].pc = "loop", ![r].last = "pick"]
          /\ st' = st
    /\ UNCHANGED <<sel, ext, used_words, writer, hist>>

\* One iteration of the selector's loop inside the handler.
HDraw(r, i) ==
    /\ req[r].pc = "loop"
    /\ i \in 1..Len(req[r].words)
    /\ LET b == LoopBody(req[r].words, req[r].countValue, req[r].usedBefore,
                         req[r].randomWords, i)
       IN IF b.done
          THEN /\ req' = [req EXCEPT ![r] = ToStore(@, b.randomWords)]
               /\ st' = [st EXCEPT ![r] = NewStore(b.randomWords, req[r].language)]
          ELSE /\ req' = [req EXCEPT ![r].randomWords = b.randomWords]
               /\ st' = st
    /\ UNCHANGED <<sel, ext, used_words, writer, hist>>

\* storeUsedWords returned an error: the 500 answer.
HStoreFail(r) ==
    /\ req[r].pc = "store"
    /\ st[r].phase = "ret"
    /\ st[r].err
    /\ req' = [req EXCEPT ![r] = Abort(@, "store")]
    /\ UNCHANGED <<sel, ext, used_words, writer, st, hist>>

\* storeUsedWords returned nil: the JSON answer with the language and the
\* words.
HRespond(r) ==
    /\ req[r].pc = "store"
    /\ st[r].phase = "ret"
    /\ ~st[r].err
    /\ req' = [req EXCEPT ![r].pc = "done", ![r].status = 200,
                          ![r].last = "respond"]
    /\ hist' = [hist EXCEPT !.served[req[r].language] =
                                @ \cup Range(req[r].firstNWords)]
    /\ UNCHANGED <<sel, ext, used_words, writer, st>>

\* The steps of a handler up to the extraction of the words: they touch
\* nothing that handlers share.
LocalSteps(r) ==
    \/ \E lp \in LangParams, cp \in CountParams : HStart(r, lp, cp)
    \/ HGetFail(r) \/ HGet(r)
    \/ \E pool \in SeqsUpTo(StoreWords, MaxDoc), failed \in BOOLEAN :
          HRead(r, pool, failed)
    \/ HExtractFail(r) \/ HExtract(r)

\* The steps of a handler from getUsedWords on.
SharedSteps(r) ==
    \/ HLoadFail(r) \/ HLoad(r)
    \/ HPick(r)
    \/ \E i \in 1..MaxDoc : HDraw(r, i)
    \/ StoreSteps(r)
    \/ HStoreFail(r) \/ HRespond(r)

\* Requests handled one after another: one handler at a time.
SeqInit ==
    /\ sel = NoSel
    /\ ext = NoExt
    /\ used_words = NoRows
    /\ writer = 0
    /\ st = [r \in {1} |-> IdleCall]
    /\ req = [r \in {1} |-> NewReq]
    /\ hist = NoHist

SeqNext == LocalSteps(1) \/ SharedSteps(1)

SpecSeq == SeqInit /\ [][SeqNext]_vars

\* the parameters of the two concurrent requests
RaceLangParams == {"", "fr"}
RaceCountParams == { <<"1">>, <<"2">> }

\* Two requests for one language handled concurrently, over an empty table,
\* from the moment both have extracted their words: each is where its local
\* steps lead.
RaceInit ==
    /\ sel = NoSel
    /\ ext = NoExt
    /\ used_words = NoRows
    /\ writer = 0
    /\ st = [r \in {1, 2} |-> IdleCall]
    /\ \E lp \in RaceLangParams :
       \E cps \in [{1, 2} -> RaceCountParams] :
       \E pools \in [{1, 2} -> SeqsUpTo(StoreWords, MaxDoc)] :
          req = [r \in {1, 2} |->
                   Extracted(ReadBody(Fetched(Arrived(lp, cps[r], {}, {})),
                                      pools[r], FALSE))]
    /\ hist = NoHist

RaceNext == \E r \in {1, 2} : SharedSteps(r)

SpecRace == RaceInit /\ [][RaceNext]_vars

(***************************************************************************)
(* Properties of the word selector                                         *)
(***************************************************************************)

NoRepeat(s) == \A j, k \in 1..Len(s) : s[j] = s[k] => j = k

\* The distinct words of the pool that were not used before.
Eligible(words, usedBefore) == Range(words) \ usedBefore

\* C2: whenever PickRandomUniqueWords returns with n < len(pool), every
\* returned word is in the pool, none is in the excluded set and none occurs
\* twice.
C2_SelectorExclusion ==
    (sel.pc = "returned" /\ sel.n < Len(sel.words)) =>
        /\ Range(sel.result) \subseteq Range(sel.words)
        /\ Range(sel.result) \cap sel.usedBefore = {}
        /\ NoRepeat(sel.result)

\* A call that returned two words, in the order drawn, from a pool of three
\* holding an excluded word.
C2_Witness ==
    /\ sel.pc = "returned"
    /\ sel.n = 2
    /\ Len(sel.words) = 3
    /\ sel.words[3] \in sel.usedBefore
    /\ sel.result = <<sel.words[2], sel.words[1]>>

\* C3: for every n with 0 <= n < len(pool) for which the pool holds at least
\* n distinct words that are not excluded, the call eventually returns, with
\* exactly n words (the empty sequence for n = 0).
C3_SelectorTerminates ==
    (/\ sel.pc = "call"
     /\ 0 <= sel.n
     /\ sel.n < Len(sel.words)
     /\ Cardinality(Eligible(sel.words, sel.usedBefore)) >= sel.n)
    ~> (sel.pc = "returned" /\ Len(sel.result) = sel.n)

OutermostParagraphs(doc) ==
    SelectSeq([j \in 1..Len(doc) |-> j],
              LAMBDA j : /\ IsParagraph(doc[j])
                         /\ ~\E a \in 1..(j - 1) :
                               IsParagraph(doc[a]) /\ InSubtree(doc, a, j))

\* The text of the text nodes in the subtree of node n, in document order.
TextUnder(doc, n) ==
    LET at == SelectSeq([j \in 1..Len(doc) |-> j],
                        LAMBDA j : /\ doc[j].type = "text"
                                   /\ (j = n \/ InSubtree(doc, n, j)))
    IN Flatten([k \in 1..Len(at) |-> doc[at[k]].data])

\* The tokens of the paragraph text of a document, each text occurrence
\* counted once.
ParagraphTokens(doc) ==
    LET ps == OutermostParagraphs(doc) IN
    Flatten([k \in 1..Len(ps) |-> Fields(RemovePunctuation(TextUnder(doc, ps[k])))])

IsToken(w) ==
    /\ Len(w) > 0
    /\ \A k \in 1..Len(w) : w[k] \in LowerLetters \cup {"'"}

\* C9: the extractor returns exactly the tokens of the text inside paragraph
\* elements, in document order, each occurrence of paragraph text once (also
\* under nested paragraph elements); every token is non-empty and made of
\* lowercase letters and apostrophes.
C9_ParagraphTokensOnce ==
    ext.pc = "returned" =>
        /\ ext.words = ParagraphTokens(ext.doc)
        /\ \A k \in 1..Len(ext.words) : IsToken(ext.words[k])

(***************************************************************************)
(* Properties of the usage store                                           *)
(***************************************************************************)

\* C4: storeUsedWords is atomic as a batch: a call that returns an error
\* has persisted none of its rows and leaves no transaction open; a call
\* that returns without error has all its words in the table.
C4_BatchAtomic ==
    \A c \in DOMAIN st :
        st[c].phase = "ret" =>
            /\ st[c].err => (st[c].applied = NoRows /\ ~st[c].txOpen)
            /\ ~st[c].err =>
                  Range(st[c].words) \subseteq SelectWords(used_words, st[c].language)

\* C5: the store is one set of words per language: getUsedWords(L) is the
\* union of the batches stored under L, whatever was stored under other
\* languages, and a (word, language) pair has at most one record.
C5_SetPerLanguage ==
    /\ \A l \in Langs : SelectWords(used_words, l) = hist.stored[l]
    /\ \A row \in Rows : used_words[row] <= 1
    /\ \A c \in DOMAIN st :
          st[c].phase = "got" => st[c].got = hist.stored[st[c].language]

\* A batch repeating a word was stored without error under a language that
\* already held the word, while the other language holds other words.
C5_Witness ==
    \E c \in DOMAIN st :
        /\ st[c].phase = "ret"
        /\ ~st[c].err
        /\ st[c].words = <<"a", "a">>
        /\ st[c].language = "en"
        /\ st[c].applied = NoRows
        /\ used_words[<<"a", "en">>] = 1
        /\ hist.stored["fr"] = {"b"}
        /\ hist.stored["en"] = {"a"}

(***************************************************************************)
(* Properties of the request handler                                       *)
(***************************************************************************)

\* The words of a 200 answer were neither in the store nor served for the
\* language when the request began.
FreshAnswer(request) ==
    Range(request.firstNWords)
        \cap (request.usedAtStart \cup request.servedAtStart) = {}

\* C1 as stated: with requests handled one after another, every word of a
\* 200 answer was absent from the language's used words when the request
\* began, whatever the count and the size of the pool.
C1_NeverRepeats ==
    \A r \in DOMAIN req : req[r].status = 200 => FreshAnswer(req[r])

\* C1 amended: the same, for the requests whose count is below the size of
\* the fetched pool.
C1_NeverRepeatsBelowPool ==
    \A r \in DOMAIN req :
        (req[r].status = 200 /\ req[r].countValue < Len(req[r].words))
            => FreshAnswer(req[r])

\* A 200 answer of one word out of a pool of two whose other word was used
\* and served before.
C1_Witness ==
    \E r \in DOMAIN req :
        /\ req[r].status = 200
        /\ req[r].countValue = 1
        /\ Len(req[r].words) = 2
        /\ req[r].words[1] \in req[r].usedAtStart \cap req[r].servedAtStart
        /\ req[r].firstNWords = <<req[r].words[2]>>

\* C6: a failure of the fetch, the body read, the extraction, the load or
\* the store is terminal: the handler answers 500, runs no later step and
\* persists nothing; a 200 answer comes only after the words were stored.
C6_FailureTerminal ==
    \A r \in DOMAIN req :
        /\ req[r].failed # "none" =>
              /\ req[r].pc = "done"
              /\ req[r].status = 500
              /\ StepIndex(req[r].last) <= StepIndex(req[r].failed)
              /\ st[r].applied = NoRows
        /\ req[r].status = 200 =>
              /\ st[r].phase = "ret"
              /\ ~st[r].err
              /\ Range(req[r].firstNWords)
                    \subseteq SelectWords(used_words, req[r].language)

\* A count parameter that is a non-negative integer.
IsNonNegative(param) ==
    param # <<>> /\ \A k \in 1..Len(param) : param[k] \in Digits

\* C8: a missing language resolves to "en"; the count resolves to the
\* parameter when it is a non-negative integer and to 10 otherwise, so that
\* the selector is called with a non-negative count and no parameter makes
\* the handler fail.
C8_ParametersDefault ==
    \A r \in DOMAIN req :
        req[r].pc # "new" =>
            /\ req[r].language =
                  (IF req[r].langParam = "" THEN "en" ELSE req[r].langParam)
            /\ req[r].countValue =
                  (IF IsNonNegative(req[r].countParam)
                   THEN DecimalValue(req[r].countParam) ELSE DefaultCount)
            /\ req[r].countValue >= 0
            /\ req[r].pc # "panicked"

====
